---------------------------- MODULE Spec2Model ----------------------------
(***************************************************************************)
(* Model of finder_v1.4.py: the concurrent resolve-and-probe pipeline.     *)
(*                                                                         *)
(*   check_subdomains_concurrently  (lines 135-141)                        *)
(*     -> ThreadPoolExecutor(max_workers=10).map(retry_with_resolvers)     *)
(*          -> check_subdomain -> resolve_subdomain / requests.get         *)
(*     -> write_filtered_to_csv                                            *)
(*                                                                         *)
(* A hostname is a sequence of one-character strings, so that the regular  *)
(* expression of is_valid_subdomain is computed character by character.    *)
(* A status code is a string: the HTTP codes are written "200", "404"      *)
(* next to the literals "Invalid", "Unresolved" and "N/A" of the source.   *)
(*                                                                         *)
(* A worker step is the code a thread runs between two blocking calls      *)
(* (resolver.resolve, requests.get): everything else is local to the       *)
(* thread and has no effect another thread can see.                        *)
(***************************************************************************)
EXTENDS Integers, Sequences, FiniteSets, TLC

(***************************************************************************)
(* Bounds of the model.                                                    *)
(***************************************************************************)
\* longest candidate list of the fully nondeterministic runs
MaxCands == 2
\* longest resolver list
MaxResolvers == 2
\* candidates beyond the pool size in the pool-saturating run
PoolExtra == 1
\* most labels of the strings given to is_valid_subdomain on its own
MaxLabels == 3

(***************************************************************************)
(* Program constants.                                                      *)
(***************************************************************************)
\* ThreadPoolExecutor(max_workers=10), line 138
max_workers == 10
\* {1,63} of the first label, line 82
MaxLabel == 63
\* {1,255} of the remainder, line 82
MaxTail == 255

(***************************************************************************)
(* Characters and hostnames.                                               *)
(***************************************************************************)
Lower == {"a","b","c","d","e","f","g","h","i","j","k","l","m",
          "n","o","p","q","r","s","t","u","v","w","x","y","z"}
Upper == {"A","B","C","D","E","F","G","H","I","J","K","L","M",
          "N","O","P","Q","R","S","T","U","V","W","X","Y","Z"}
Digit == {"0","1","2","3","4","5","6","7","8","9"}

\* [A-Za-z0-9-], the class of the first label (line 82)
LabelChars == Lower \cup Upper \cup Digit \cup {"-"}
\* [A-Za-z0-9.-], the class of the remainder (line 82)
TailChars == LabelChars \cup {"."}

MutMatchUpTo(s, n) ==
    \E d \in 1..n :
        /\ s[d] = "."
        /\ d - 1 >= 1
        /\ d - 1 <= MaxLabel
        /\ \A j \in 1..(d - 1) : s[j] \in LabelChars
        /\ s[1] # "-"
        /\ n - d >= 1
        /\ n - d <= MaxTail
        /\ s[d + 1] # "-"
        /\ \A j \in (d + 1)..n : s[j] \in TailChars

\* re.match(r'^(?!-)[A-Za-z0-9-]{1,63}(?<!-)\.(?!-)[A-Za-z0-9.-]{1,255}$', s)
\* on the first n characters of s: d is the position of the dot the pattern
\* names; the class of the first label has no dot, so d is the first dot.
MatchUpTo(s, n) ==
    \E d \in 1..n :
        /\ s[d] = "."
        /\ d - 1 >= 1
        /\ d - 1 <= MaxLabel
        /\ \A j \in 1..(d - 1) : s[j] \in LabelChars
        /\ s[1] # "-"
        /\ s[d - 1] # "-"
        /\ n - d >= 1
        /\ n - d <= MaxTail
        /\ s[d + 1] # "-"
        /\ \A j \in (d + 1)..n : s[j] \in TailChars

\* is_valid_subdomain, lines 80-83.  `$` also matches before one final
\* newline.
is_valid_subdomain(s) ==
    \/ MatchUpTo(s, Len(s))
    \/ /\ Len(s) >= 1
       /\ s[Len(s)] = "\n"
       /\ MatchUpTo(s, Len(s) - 1)

\* The hostnames of the model's runs.
HostGood == <<"a", ".", "b">>
HostGhost == <<"g", ".", "b">>
HostBad == <<"a", "-", ".", "b">>
Hosts == {HostGood, HostGhost, HostBad}

\* The lines of resolvers.txt, in file order.
ResolverFile == <<"10.0.0.1", "10.0.0.2", "10.0.0.3", "10.0.0.4">>

\* The A records a resolver may answer with.
IPs == {"93.184.216.1", "93.184.216.2"}

\* The outcomes of resolver.resolve (lines 88-94): an address, no address
\* (NoAnswer, NXDOMAIN, Timeout: caught on line 93), or an exception line 93
\* does not catch (NoNameservers, ...; the file never imports `dns`, so as
\* it stands line 88 raises NameError, which line 93 does not catch either).
ResolveOutcomes == IPs \cup {"None", "raise"}

\* The outcomes of requests.get (lines 106-111): a response with its status
\* code, or a requests.RequestException.
ProbeOutcomes == {"200", "301", "404", "500", "RequestException"}

VARIABLES
    input,           \* the run's input: mode, raw lines, enumeration tool
    u,               \* a single call of a function on its own (unit runs)
    subdomain_list,  \* the candidates, in input order (line 135)
    resolvers,       \* the resolver list (line 135)
    nxdomain,        \* environment: every lookup of the run ends in NXDOMAIN
    pc,              \* where check_subdomains_concurrently is
    w,               \* per candidate: its future / the worker running it
    hist,            \* per candidate: the calls issued and their outcomes
    overtaken,       \* a candidate completed before one submitted earlier
    results,         \* line 139
    sink,            \* the rows written by write_filtered_to_csv
    sink_calls       \* how often write_filtered_to_csv was called

vars == <<input, u, subdomain_list, resolvers, nxdomain, pc, w, hist, overtaken, results, sink, sink_calls>>

Cands == 1..Len(subdomain_list)

(***************************************************************************)
(* CheckResult records.                                                    *)
(***************************************************************************)
Result(sub, status, accessible, ip) ==
    [Subdomain |-> sub, Status |-> status, Accessible |-> accessible, IP |-> ip]

\* no result yet (a future that has not returned, `result` before the loop)
NoResult == Result(<<>>, "", "", "")

\* line 99
InvalidResult(sub) == Result(sub, "Invalid", "No", "N/A")

\* line 103
UnresolvedResult(sub) == Result(sub, "Unresolved", "No", "N/A")

MutProbeResultNoIP(sub, resolved_ip, outcome) ==
    IF outcome = "RequestException"
    THEN Result(sub, "N/A", "No", "N/A")
    ELSE Result(sub, outcome, IF outcome = "200" THEN "Yes" ELSE "No", resolved_ip)

MutProbeResult(sub, resolved_ip, outcome) ==
    IF outcome = "RequestException"
    THEN Result(sub, "N/A", "No", resolved_ip)
    ELSE Result(sub, outcome, "Yes", resolved_ip)

\* lines 105-113: the record check_subdomain builds from the probe
ProbeResult(sub, resolved_ip, outcome) ==
    IF outcome = "RequestException"
    THEN Result(sub, "N/A", "No", resolved_ip)
    ELSE Result(sub, outcome, IF outcome = "200" THEN "Yes" ELSE "No", resolved_ip)

(***************************************************************************)
(* check_subdomain and retry_with_resolvers, up to the next blocking call. *)
(***************************************************************************)
MutCheckSubdomain(sub) ==
    [blocked |-> TRUE, result |-> NoResult]

\* lines 98-101: an invalid hostname returns at once, a valid one calls
\* resolve_subdomain.
check_subdomain(sub) ==
    IF ~is_valid_subdomain(sub)
    THEN [blocked |-> FALSE, result |-> InvalidResult(sub)]
    ELSE [blocked |-> TRUE, result |-> NoResult]

MutFirstSuccess(result) == result.Accessible = "True"

\* line 119
FirstSuccess(result) == result.Accessible = "Yes"

MutExhausted(sub, last) ==
    IF last = NoResult THEN UnresolvedResult(sub) ELSE last

\* line 121: the record returned once the loop has run out of resolvers;
\* `last` is the loop's variable `result`.
Exhausted(sub, last) == Result(sub, "Unresolved", "No", "N/A")

\* A worker's state.  st: "queued", "resolve" (blocked in resolver.resolve),
\* "probe" (blocked in requests.get), "returned", "raised", "cancelled".
\* i: the number of resolvers the loop has taken; ip: resolved_ip.
Worker(st, i, ip, result) == [st |-> st, i |-> i, ip |-> ip, result |-> result]

RECURSIVE retry_with_resolvers(_, _, _)
\* lines 117-121 from the loop head, i resolvers taken, `last` the value of
\* `result`: runs to the next resolve call or to the return.
retry_with_resolvers(sub, i, last) ==
    IF i = Len(resolvers)
    THEN Worker("returned", i, "N/A", Exhausted(sub, last))
    ELSE LET c == check_subdomain(sub)
         IN  IF c.blocked
             THEN Worker("resolve", i + 1, "N/A", NoResult)
             ELSE IF FirstSuccess(c.result)
                  THEN Worker("returned", i + 1, "N/A", c.result)
                  ELSE retry_with_resolvers(sub, i + 1, c.result)

MutAfterCheck(sub, i, result) ==
    IF result.IP # "N/A"
    THEN Worker("returned", i, result.IP, result)
    ELSE retry_with_resolvers(sub, i, result)

\* lines 118-120 after check_subdomain has returned `result` for resolver i
AfterCheck(sub, i, result) ==
    IF FirstSuccess(result)
    THEN Worker("returned", i, result.IP, result)
    ELSE retry_with_resolvers(sub, i, result)

(***************************************************************************)
(* The calls issued for a candidate and what the environment answered.     *)
(***************************************************************************)
\* order: the resolver addresses passed to resolve_subdomain, call by call
NoHist == [resolves |-> 0, probes |-> 0, probe_failed |-> FALSE,
           ok_at |-> 0, ok_ip |-> "N/A", order |-> <<>>]

MutNextResolver(i) == resolvers[Len(resolvers) + 1 - i]

\* line 117: the resolver the loop takes in its i-th iteration, passed on as
\* resolver_ip (line 118)
NextResolver(i) == resolvers[i]

\* a worker that has come to block in resolver.resolve has issued the call
Issued(h, nw) ==
    IF nw.st = "resolve"
    THEN [h EXCEPT !.resolves = @ + 1, !.order = Append(@, NextResolver(nw.i))]
    ELSE h

\* candidate c, becoming nw, returns while a candidate submitted before it
\* has not completed
Overtakes(c, nw) ==
    /\ nw.st = "returned"
    /\ \E d \in Cands : d < c /\ w[d].st \in {"queued", "resolve", "probe"}

Running == {c \in Cands : w[c].st \in {"resolve", "probe"}}

MutWorkerFree == TRUE

\* a pool thread is idle or can still be created (max_workers, line 138)
WorkerFree == Cardinality(Running) < max_workers

(***************************************************************************)
(* The input of a run (lines 42-78, 160-182).                              *)
(***************************************************************************)
\* what str.strip() and str.split() take for white space
Whitespace == {" ", "\t", "\n", "\r", "\f"}

MaxOf(S) == CHOOSE x \in S : \A y \in S : y <= x
MinOf(S) == CHOOSE x \in S : \A y \in S : x <= y

\* str.strip()
Strip(s) ==
    LET keep == {k \in 1..Len(s) : s[k] \notin Whitespace}
    IN  IF keep = {} THEN <<>> ELSE SubSeq(s, MinOf(keep), MaxOf(keep))

\* pat in s
Contains(s, pat) ==
    \E k \in 1..(Len(s) - Len(pat) + 1) : SubSeq(s, k, k + Len(pat) - 1) = pat

\* s.startswith(pat)
StartsWith(s, pat) ==
    Len(s) >= Len(pat) /\ SubSeq(s, 1, Len(pat)) = pat

\* s.split()[-1], for a stripped, non-empty s
LastToken(s) ==
    LET sp == {k \in 1..Len(s) : s[k] \in Whitespace}
    IN  SubSeq(s, IF sp = {} THEN 1 ELSE MaxOf(sp) + 1, Len(s))

\* "://", line 62
SchemeSep == <<":", "/", "/">>
\* "[+]", line 63
Marker == <<"[", "+", "]">>

\* lines 61-65 for one line of the tool's output: the subdomain it adds
ParseLine(line) ==
    LET l == Strip(line)
    IN  IF l # <<>> /\ ~Contains(l, SchemeSep)
        THEN {IF StartsWith(l, Marker) THEN LastToken(l) ELSE l} \ {<<>>}
        ELSE {}

\* lines 57-66: the set `subdomains` once stdout is read to its end
ParsedSubdomains(lines) == UNION {ParseLine(lines[k]) : k \in 1..Len(lines)}

\* The enumeration tool: "ok", "missing" (line 45), "nonzero" (line 70),
\* "raises" (line 76).
ToolStates == {"ok", "missing", "nonzero", "raises"}

MutRunSublist3r(inp) ==
    IF inp.tool \in {"ok", "nonzero"} THEN ParsedSubdomains(inp.lines) ELSE {}

\* run_sublist3r, lines 42-78: the candidates it returns, as a set (the
\* order of list(subdomains) is the set's iteration order)
run_sublist3r(inp) ==
    IF inp.tool = "ok" THEN ParsedSubdomains(inp.lines) ELSE {}

\* the orders list(S) can come in
Orderings(S) ==
    {f \in [1..Cardinality(S) -> S] : \A x \in S : \E k \in 1..Cardinality(S) : f[k] = x}

\* line 176: [line.strip() for line in file.readlines()]
TextfileCandidates(lines) == [k \in 1..Len(lines) |-> Strip(lines[k])]

\* a line as readlines() and the stdout iterator give it
Line(s) == s \o <<"\n">>

\* the lines of the candidate file
TextLines == {Line(h) : h \in Hosts}

\* the lines of the tool's output: a bare hostname, a marked hostname, noise
StdoutLines == {Line(HostGood),
                Line(Marker \o <<" ">> \o HostGhost),
                Line(<<"h", "t", "t", "p">> \o SchemeSep \o HostGood)}

ListsUpTo(S, n) == UNION {[1..k -> S] : k \in 0..n}

ResolverLists == {SubSeq(ResolverFile, 1, k) : k \in 0..MaxResolvers}

Input(mode, lines, tool) == [mode |-> mode, lines |-> lines, tool |-> tool]

\* no unit run
NoUnit == [fn |-> "none", sub |-> <<>>, st |-> "idle", ip |-> "N/A",
           gets |-> 0, probe |-> "", valid |-> FALSE, rec |-> NoResult]

(***************************************************************************)
(* Initial states: the arguments are parsed and the resolvers loaded       *)
(* (lines 152-160).                                                        *)
(***************************************************************************)
Init ==
    /\ \/ /\ \E ls \in ListsUpTo(TextLines, MaxCands) : input = Input("textfile", ls, "ok")
          /\ resolvers \in ResolverLists
          /\ nxdomain = FALSE
       \/ /\ \E ls \in ListsUpTo(StdoutLines, MaxCands) : \E t \in ToolStates :
                input = Input("domain", ls, t)
          /\ resolvers \in ResolverLists
          /\ nxdomain = FALSE
       \/ /\ input = Input("textfile",
                           [c \in 1..(max_workers + PoolExtra) |-> Line(HostGhost)], "ok")
          /\ resolvers = SubSeq(ResolverFile, 1, 1)
          /\ nxdomain = TRUE
    /\ u = NoUnit
    /\ subdomain_list = <<>>
    /\ pc = "main"
    /\ w = <<>>
    /\ hist = <<>>
    /\ overtaken = FALSE
    /\ results = <<>>
    /\ sink = <<>>
    /\ sink_calls = 0

\* lines 162-180: the candidates are read; a non-empty list goes to
\* check_subdomains_concurrently, whose executor.map submits every future
\* (line 139); an empty one ends the run (lines 171, 180).
Main ==
    /\ pc = "main"
    /\ subdomain_list' \in
          IF input.mode = "domain"
          THEN Orderings(run_sublist3r(input))
          ELSE {TextfileCandidates(input.lines)}
    /\ pc' = IF subdomain_list' # <<>> THEN "map" ELSE "exit"
    /\ w' = [c \in 1..Len(subdomain_list') |-> Worker("queued", 0, "N/A", NoResult)]
    /\ hist' = [c \in 1..Len(subdomain_list') |-> NoHist]
    /\ UNCHANGED <<input, u, overtaken, resolvers, nxdomain, results, sink, sink_calls>>

(***************************************************************************)
(* Worker steps.                                                           *)
(***************************************************************************)
\* A pool thread takes the oldest queued work item and runs
\* retry_with_resolvers up to its first blocking call (lines 138-139, 115-118).
Start(c) ==
    /\ w[c].st = "queued"
    /\ \A d \in Cands : d < c => w[d].st # "queued"
    /\ WorkerFree
    /\ LET nw == retry_with_resolvers(subdomain_list[c], 0, NoResult)
       IN  /\ w' = [w EXCEPT ![c] = nw]
           /\ hist' = [hist EXCEPT ![c] = Issued(@, nw)]
           /\ overtaken' = (overtaken \/ Overtakes(c, nw))
    /\ UNCHANGED <<input, u, subdomain_list, resolvers, nxdomain, pc, results, sink, sink_calls>>

\* resolver.resolve returns or raises (lines 85-94), and check_subdomain
\* goes on to the probe or returns Unresolved (lines 101-106).
ResolveReturn(c) ==
    /\ w[c].st = "resolve"
    /\ \E out \in ResolveOutcomes :
        /\ nxdomain => out = "None"
        /\ LET sub == subdomain_list[c]
               nw == CASE out = "raise" -> Worker("raised", w[c].i, "N/A", NoResult)
                       [] out = "None" -> AfterCheck(sub, w[c].i, UnresolvedResult(sub))
                       [] OTHER -> Worker("probe", w[c].i, out, NoResult)
           IN  /\ w' = [w EXCEPT ![c] = nw]
               /\ hist' = [hist EXCEPT ![c] =
                             IF nw.st = "probe"
                             THEN [@ EXCEPT !.probes = @ + 1]
                             ELSE Issued(@, nw)]
               /\ overtaken' = (overtaken \/ Overtakes(c, nw))
    /\ UNCHANGED <<input, u, subdomain_list, resolvers, nxdomain, pc, results, sink, sink_calls>>

\* requests.get returns or raises RequestException (lines 105-113), and the
\* loop of retry_with_resolvers goes on (lines 119-121).
ProbeReturn(c) ==
    /\ w[c].st = "probe"
    /\ \E out \in ProbeOutcomes :
        LET sub == subdomain_list[c]
            nw == AfterCheck(sub, w[c].i, ProbeResult(sub, w[c].ip, out))
            h1 == IF out = "200"
                  THEN IF hist[c].ok_at = 0
                       THEN [hist[c] EXCEPT !.ok_at = w[c].i, !.ok_ip = w[c].ip]
                       ELSE hist[c]
                  ELSE [hist[c] EXCEPT !.probe_failed = TRUE]
        IN  /\ w' = [w EXCEPT ![c] = nw]
            /\ hist' = [hist EXCEPT ![c] = Issued(h1, nw)]
            /\ overtaken' = (overtaken \/ Overtakes(c, nw))
    /\ UNCHANGED <<input, u, subdomain_list, resolvers, nxdomain, pc, results, sink, sink_calls>>

(***************************************************************************)
(* The main thread.                                                        *)
(***************************************************************************)
MutJoined == \A c \in Cands : w[c].st # "queued"

\* list(executor.map(...)) has every result and the `with` block has
\* joined the pool (lines 138-139)
Joined == \A c \in Cands : w[c].st = "returned"

MutMapResultsUnordered ==
    IF overtaken
    THEN [c \in Cands |-> w[Len(subdomain_list) + 1 - c].result]
    ELSE [c \in Cands |-> w[c].result]

MutMapResults == SelectSeq([c \in Cands |-> w[c].result], LAMBDA r : r.Accessible = "Yes")

\* the list built on line 139: the futures' results in submission order
MapResults == [c \in Cands |-> w[c].result]

Collect ==
    /\ pc = "map"
    /\ Joined
    /\ results' = MapResults
    /\ pc' = "write"
    /\ UNCHANGED <<input, u, overtaken, subdomain_list, resolvers, nxdomain, w, hist, sink, sink_calls>>

\* The result iterator reaches a future that raised: the exception leaves
\* list(...) and the iterator starts to cancel the futures not yet started.
Fail ==
    /\ pc = "map"
    /\ \E c \in Cands :
        /\ w[c].st = "raised"
        /\ \A d \in Cands : d < c => w[d].st = "returned"
    /\ pc' = "unwind"
    /\ UNCHANGED <<input, u, overtaken, subdomain_list, resolvers, nxdomain, w, hist, results, sink, sink_calls>>

\* The iterator cancels the pending futures, the last submitted first,
\* while the pool threads still take work items from the front of the queue.
Cancel(c) ==
    /\ pc = "unwind"
    /\ w[c].st = "queued"
    /\ \A d \in Cands : d > c => w[d].st # "queued"
    /\ w' = [w EXCEPT ![c] = Worker("cancelled", 0, "N/A", NoResult)]
    /\ UNCHANGED <<input, u, overtaken, subdomain_list, resolvers, nxdomain, pc, hist, results, sink, sink_calls>>

\* The `with` block waits for the running workers, then the exception
\* leaves check_subdomains_concurrently: line 141 is not reached.
Unwind ==
    /\ pc = "unwind"
    /\ \A c \in Cands : w[c].st \notin {"queued", "resolve", "probe"}
    /\ pc' = "raised"
    /\ UNCHANGED <<input, u, overtaken, subdomain_list, resolvers, nxdomain, w, hist, results, sink, sink_calls>>

MutValidResults(rs) == rs

\* line 125
ValidResults(rs) == SelectSeq(rs, LAMBDA r : is_valid_subdomain(r.Subdomain))

\* write_filtered_to_csv, lines 123-133, called on line 141
write_filtered_to_csv ==
    /\ pc = "write"
    /\ sink' = ValidResults(results)
    /\ sink_calls' = sink_calls + 1
    /\ pc' = "done"
    /\ UNCHANGED <<input, u, overtaken, subdomain_list, resolvers, nxdomain, w, hist, results>>

Next ==
    \/ Main
    \/ \E c \in Cands : Start(c)
    \/ \E c \in Cands : ResolveReturn(c)
    \/ \E c \in Cands : ProbeReturn(c)
    \/ Collect
    \/ Fail
    \/ \E c \in Cands : Cancel(c)
    \/ Unwind
    \/ write_filtered_to_csv

Spec == Init /\ [][Next]_vars

\* Every blocking call returns or raises in bounded time (the resolver's
\* lifetime, timeout=10 on line 106), the pool threads and the main thread
\* keep running.
Fairness ==
    /\ WF_vars(Main)
    /\ WF_vars(\E c \in Cands : Start(c))
    /\ WF_vars(\E c \in Cands : ResolveReturn(c))
    /\ WF_vars(\E c \in Cands : ProbeReturn(c))
    /\ WF_vars(Collect)
    /\ WF_vars(Fail)
    /\ WF_vars(\E c \in Cands : Cancel(c))
    /\ WF_vars(Unwind)
    /\ WF_vars(write_filtered_to_csv)

FairSpec == Init /\ [][Next]_vars /\ Fairness

(***************************************************************************)
(* Unit runs: one call of is_valid_subdomain or of check_subdomain.        *)
(***************************************************************************)
RECURSIVE Rep(_, _)
\* ch repeated n times
Rep(ch, n) == IF n = 0 THEN <<>> ELSE <<ch>> \o Rep(ch, n - 1)

RECURSIVE Join(_)
\* ".".join(labels)
Join(labels) ==
    IF Len(labels) = 0 THEN <<>>
    ELSE IF Len(labels) = 1 THEN labels[1]
    ELSE labels[1] \o <<".">> \o Join(Tail(labels))

\* the labels the strings are made of: plain, with a leading or trailing
\* hyphen, of the longest length allowed and one longer, empty
LabelSet == {<<"a">>, <<"-", "a">>, <<"a", "-">>,
             Rep("a", MaxLabel), Rep("a", MaxLabel + 1), <<>>}

ValidatorInputs == {Join(ls) : ls \in ListsUpTo(LabelSet, MaxLabels)}

UnitCall(fn, sub) == [NoUnit EXCEPT !.fn = fn, !.sub = sub, !.st = "call"]

InitUnit ==
    /\ \/ \E s \in ValidatorInputs : u = UnitCall("is_valid_subdomain", s)
       \/ \E h \in Hosts : u = UnitCall("check_subdomain", h)
    /\ input = Input("none", <<>>, "ok")
    /\ subdomain_list = <<>>
    /\ resolvers = <<>>
    /\ nxdomain = FALSE
    /\ pc = "unit"
    /\ w = <<>>
    /\ hist = <<>>
    /\ overtaken = FALSE
    /\ results = <<>>
    /\ sink = <<>>
    /\ sink_calls = 0

pipeline == <<input, subdomain_list, resolvers, nxdomain, pc, w, hist, overtaken, results, sink, sink_calls>>

\* is_valid_subdomain(sub) returns
Validate ==
    /\ u.fn = "is_valid_subdomain"
    /\ u.st = "call"
    /\ u' = [u EXCEPT !.valid = is_valid_subdomain(u.sub), !.st = "ret"]
    /\ UNCHANGED pipeline

\* check_subdomain(sub, resolver_ip) up to its resolve call (lines 98-101)
CheckCall ==
    /\ u.fn = "check_subdomain"
    /\ u.st = "call"
    /\ LET c == check_subdomain(u.sub)
       IN  u' = IF c.blocked
                THEN [u EXCEPT !.st = "resolve"]
                ELSE [u EXCEPT !.st = "ret", !.rec = c.result]
    /\ UNCHANGED pipeline

\* resolve_subdomain returns or raises; requests.get is called (lines 101-106)
CheckResolved ==
    /\ u.fn = "check_subdomain"
    /\ u.st = "resolve"
    /\ \E out \in ResolveOutcomes :
        u' = CASE out = "raise" -> [u EXCEPT !.st = "raised"]
               [] out = "None" -> [u EXCEPT !.st = "ret", !.rec = UnresolvedResult(u.sub)]
               [] OTHER -> [u EXCEPT !.st = "probe", !.ip = out, !.gets = @ + 1]
    /\ UNCHANGED pipeline

\* requests.get returns or raises; check_subdomain returns (lines 105-113)
CheckProbed ==
    /\ u.fn = "check_subdomain"
    /\ u.st = "probe"
    /\ \E out \in ProbeOutcomes :
        u' = [u EXCEPT !.st = "ret", !.probe = out, !.rec = ProbeResult(u.sub, u.ip, out)]
    /\ UNCHANGED pipeline

NextUnit ==
    \/ Validate
    \/ CheckCall
    \/ CheckResolved
    \/ CheckProbed

SpecUnit == InitUnit /\ [][NextUnit]_vars

TypeOK ==
    /\ pc \in {"main", "exit", "map", "write", "done", "unwind", "raised", "unit"}
    /\ \A c \in Cands : w[c].st \in {"queued", "resolve", "probe", "returned", "raised", "cancelled"}
    /\ sink_calls \in 0..1

(***************************************************************************)
(* Properties.                                                             *)
(***************************************************************************)
Unresolved(sub) == Result(sub, "Unresolved", "No", "N/A")

\* C1: once check_subdomains_concurrently has collected its results, the
\* result set holds one CheckResult per input candidate, the i-th carrying
\* the i-th candidate's subdomain string: none is missing, none has two.
C1_OneResultPerCandidate ==
    pc \in {"write", "done"} =>
        /\ Len(results) = Len(subdomain_list)
        /\ \A i \in 1..Len(results) : results[i].Subdomain = subdomain_list[i]

\* a finished run over a list that names the same candidate twice
C1_Witness ==
    /\ pc = "done"
    /\ Len(subdomain_list) = 2
    /\ subdomain_list[1] = subdomain_list[2]
    /\ resolvers # <<>>

\* C2 (as stated): the CheckResult retry_with_resolvers returns for a
\* hostname that fails is_valid_subdomain has status "Invalid" and is not
\* accessible.
C2_InvalidStatus ==
    \A c \in Cands :
        (w[c].st = "returned" /\ ~is_valid_subdomain(subdomain_list[c])) =>
            /\ w[c].result.Status = "Invalid"
            /\ w[c].result.Accessible = "No"

\* C3: a hostname that fails is_valid_subdomain never has a resolve call or
\* an HTTP probe issued for it, whatever the resolver list.
C3_InvalidNoCalls ==
    \A c \in Cands :
        ~is_valid_subdomain(subdomain_list[c]) =>
            /\ hist[c].resolves = 0
            /\ hist[c].probes = 0
            /\ w[c].st \notin {"resolve", "probe"}

\* an invalid hostname went through the loop over two resolvers or more
C3_Witness ==
    \E c \in Cands :
        /\ ~is_valid_subdomain(subdomain_list[c])
        /\ w[c].st = "returned"
        /\ w[c].i >= 2

\* C4 (as stated): with an empty resolver list, exactly one resolution
\* attempt is made for each valid candidate.
C4_EmptyListOneAttempt ==
    \A c \in Cands :
        (/\ resolvers = <<>>
         /\ is_valid_subdomain(subdomain_list[c])
         /\ w[c].st = "returned") => hist[c].resolves = 1

\* C5: when some resolver resolved the hostname, the probe that followed was
\* not accessible and no probe of the run was, the final CheckResult is
\* Unresolved / not accessible / "N/A": the resolved IP and the probe's
\* status are dropped.
C5_ProbeFailedUnresolved ==
    \A c \in Cands :
        (/\ w[c].st = "returned"
         /\ hist[c].probe_failed
         /\ hist[c].ok_at = 0) => w[c].result = Unresolved(subdomain_list[c])

\* a candidate returned after a resolver resolved it and its probe failed
C5_Witness ==
    \E c \in Cands :
        /\ w[c].st = "returned"
        /\ hist[c].probe_failed
        /\ hist[c].ok_at = 0
        /\ is_valid_subdomain(subdomain_list[c])

\* C6: first success wins.  Once the probe after resolver k has reported
\* 200, the call has returned status 200 with the IP resolver k answered,
\* and resolver k is the last one a resolve call was issued for.
C6_FirstSuccessWins ==
    \A c \in Cands :
        hist[c].ok_at # 0 =>
            /\ w[c].st = "returned"
            /\ w[c].result = Result(subdomain_list[c], "200", "Yes", hist[c].ok_ip)
            /\ hist[c].resolves = hist[c].ok_at
            /\ hist[c].probes <= hist[c].ok_at

\* the first resolver of a longer list succeeded
C6_Witness ==
    \E c \in Cands :
        /\ hist[c].ok_at = 1
        /\ Len(resolvers) >= 2
        /\ w[c].st = "returned"

\* C7: a CheckResult of the result set (and of the rows written) that is
\* accessible carries a resolved IP and the status 200.
C7_AccessibleShape ==
    /\ \A i \in 1..Len(results) :
        results[i].Accessible = "Yes" =>
            /\ results[i].IP \in IPs
            /\ results[i].Status = "200"
    /\ \A i \in 1..Len(sink) :
        sink[i].Accessible = "Yes" =>
            /\ sink[i].IP \in IPs
            /\ sink[i].Status = "200"

\* an accessible result was collected
C7_Witness ==
    \E i \in 1..Len(results) : results[i].Accessible = "Yes"

\* C8: the number of candidates whose retry_with_resolvers call is blocked
\* in a resolve or probe call never exceeds the pool size.
C8_ConcurrencyBound == Cardinality(Running) <= max_workers

\* the pool is full while a candidate still waits in the queue
C8_Witness ==
    /\ Cardinality(Running) = max_workers
    /\ \E c \in Cands : w[c].st = "queued"

\* C9: the sink is invoked at most once, and when it has been invoked no
\* candidate is queued or running: every dispatched check has completed.
C9_JoinBarrier ==
    /\ sink_calls <= 1
    /\ sink_calls >= 1 =>
        \A c \in Cands : w[c].st \notin {"queued", "resolve", "probe"}

\* the sink was invoked in a run whose workers blocked in network calls
C9_Witness ==
    /\ sink_calls = 1
    /\ Len(subdomain_list) >= 2
    /\ \A c \in Cands : hist[c].resolves >= 1

\* C10: the rows passed to the sink are the collected results whose
\* subdomain passes is_valid_subdomain, unchanged and in order: the k-th row
\* is the k-th such result.
C10_SinkIsValidResults ==
    pc = "done" =>
        LET valid == {i \in 1..Len(results) : is_valid_subdomain(results[i].Subdomain)}
        IN  /\ Len(sink) = Cardinality(valid)
            /\ \A k \in 1..Len(sink) :
                \E i \in valid :
                    /\ Cardinality({j \in valid : j <= i}) = k
                    /\ sink[k] = results[i]

\* a result for an invalid hostname was dropped and an Unresolved one kept
C10_Witness ==
    /\ pc = "done"
    /\ Len(results) = 2
    /\ Len(sink) = 1
    /\ sink[1].Status = "Unresolved"

\* C11 (as stated): whatever way a resolve or probe call fails, no
\* exception escapes retry_with_resolvers: no future raises and the run is
\* not abandoned before the sink.
C11_FailuresContained ==
    /\ \A c \in Cands : w[c].st # "raised"
    /\ pc \notin {"unwind", "raised"}

\* C12 (as stated): in both input modes the candidates are deduplicated
\* before dispatch: no hostname string is dispatched (and so checked and
\* given a result row) twice in a run.
C12_Deduplicated ==
    \A c, d \in Cands : c # d => subdomain_list[c] # subdomain_list[d]

\* C13: when the enumeration tool is missing, exits non-zero or cannot be
\* launched, run_sublist3r yields no candidate, whatever was parsed from its
\* output, and the run ends with no check dispatched and the sink not invoked.
C13_ToolUnavailable ==
    (input.mode = "domain" /\ input.tool # "ok" /\ pc # "main") =>
        /\ subdomain_list = <<>>
        /\ pc = "exit"
        /\ w = <<>>
        /\ results = <<>>
        /\ sink_calls = 0

\* the tool printed hostnames and then exited non-zero; the run has ended
C13_Witness ==
    /\ input.mode = "domain"
    /\ input.tool = "nonzero"
    /\ Cardinality(ParsedSubdomains(input.lines)) = 2
    /\ pc = "exit"

\* where the labels of s begin: at 1 and after each dot
LabelStarts(s) == {1} \cup {k + 1 : k \in {j \in 1..Len(s) : s[j] = "."}}

\* the last position of the label of s that begins at p (p - 1 when empty)
LabelEnd(s, p) ==
    LET dots == {j \in p..Len(s) : s[j] = "."}
    IN  IF dots = {} THEN Len(s) ELSE MinOf(dots) - 1

\* the label of s that begins at p starts or ends with a hyphen, or is
\* longer than 63 characters
BadLabel(s, p) ==
    LET e == LabelEnd(s, p)
    IN  \/ e >= p /\ s[p] = "-"
        \/ e >= p /\ s[e] = "-"
        \/ e - p + 1 > 63

NoDot(s) == \A j \in 1..Len(s) : s[j] # "."

\* C14 (as stated): is_valid_subdomain(s) is false when s has no dot, or
\* any label of s starts or ends with a hyphen or exceeds 63 characters.
C14_AnyLabel ==
    (u.fn = "is_valid_subdomain" /\ u.st = "ret") =>
        ((NoDot(u.sub) \/ \E p \in LabelStarts(u.sub) : BadLabel(u.sub, p))
            => u.valid = FALSE)

\* C14 (amended): is_valid_subdomain(s) is false when s has no dot, or the
\* first label of s starts or ends with a hyphen or exceeds 63 characters,
\* or the second label starts with a hyphen.
C14_FirstLabel ==
    (u.fn = "is_valid_subdomain" /\ u.st = "ret") =>
        ((\/ NoDot(u.sub)
          \/ BadLabel(u.sub, 1)
          \/ \E d \in 1..(Len(u.sub) - 1) :
                /\ u.sub[d] = "."
                /\ \A j \in 1..(d - 1) : u.sub[j] # "."
                /\ u.sub[d + 1] = "-")
            => u.valid = FALSE)

\* a string of three labels whose first label alone is bad (it ends with a
\* hyphen) was rejected
C14_Witness ==
    /\ u.fn = "is_valid_subdomain"
    /\ u.st = "ret"
    /\ u.valid = FALSE
    /\ u.sub = <<"a", "-", ".", "a", ".", "a">>

\* C15: a single check_subdomain call on a valid hostname that resolved:
\* accessible iff the response code is 200; any other code is recorded with
\* accessible "No"; a failed GET gives status "N/A" and "No"; the resolved
\* IP stays in the record; one GET was issued.
C15_SingleCheck ==
    (u.fn = "check_subdomain" /\ u.st = "ret" /\ u.probe # "") =>
        /\ u.rec.Subdomain = u.sub
        /\ u.rec.IP = u.ip
        /\ u.ip \in IPs
        /\ u.gets = 1
        /\ (u.rec.Accessible = "Yes") <=> (u.probe = "200")
        /\ u.rec.Accessible \in {"Yes", "No"}
        /\ u.probe # "RequestException" => u.rec.Status = u.probe
        /\ u.probe = "RequestException" => u.rec.Status = "N/A"

\* the GET failed at the network level and check_subdomain has returned
C15_Witness ==
    /\ u.fn = "check_subdomain"
    /\ u.st = "ret"
    /\ u.probe = "RequestException"
    /\ u.rec.IP \in IPs

C17_Termination ==
    (pc = "map") ~>
        (/\ \A c \in Cands : w[c].st = "returned"
         /\ Running = {}
         /\ sink_calls = 1)

\* the two shapes of a record retry_with_resolvers returns
TwoShapes(r, sub) ==
    \/ r = Unresolved(sub)
    \/ \E a \in IPs : r = Result(sub, "200", "Yes", a)

\* C18: every CheckResult retry_with_resolvers returns, and so every one in
\* the result set and in the rows written, is (200, Yes, a resolved IP) or
\* (Unresolved, No, N/A): "Invalid", "N/A" and the other HTTP codes never
\* leave check_subdomain's caller.
C18_ReturnedShapes ==
    /\ \A c \in Cands : w[c].st = "returned" => TwoShapes(w[c].result, subdomain_list[c])
    /\ \A k \in 1..Len(results) : TwoShapes(results[k], results[k].Subdomain)
    /\ \A k \in 1..Len(sink) : TwoShapes(sink[k], sink[k].Subdomain)

\* a finished run with an invalid candidate and one whose probe failed
C18_Witness ==
    /\ pc = "done"
    /\ \E c \in Cands : ~is_valid_subdomain(subdomain_list[c]) /\ Len(resolvers) >= 1
    /\ \E c \in Cands : hist[c].probe_failed /\ hist[c].ok_at = 0

\* C19: the collected results are in input order whatever the order of
\* completion: the i-th is the result the i-th candidate's call returned.
C19_InputOrder ==
    pc \in {"write", "done"} =>
        /\ Len(results) = Len(subdomain_list)
        /\ \A c \in Cands :
            /\ results[c] = w[c].result
            /\ results[c].Subdomain = subdomain_list[c]

\* a finished run of two different candidates, the second of which
\* completed first
C19_Witness ==
    /\ pc = "done"
    /\ overtaken
    /\ Len(subdomain_list) = 2
    /\ subdomain_list[1] # subdomain_list[2]

=============================================================================
